---- MODULE Spec2Model ----
(***************************************************************************)
(* A model of vobject's vCard 4.0 module (vobject/vcard40.py): the         *)
(* behaviors it registers, the VCard4_0 component schema (cardinality      *)
(* table, sortFirst, implicit VERSION), Gender.decode, and the line-width  *)
(* policy of Photo4_0 / Logo4_0.  The registry, the validator, the child   *)
(* sorter, the text codec and the line folder live in modules of the       *)
(* package that are imported by vcard40.py (base, behavior, vcard,         *)
(* icalendar); they are modelled after the written specification.          *)
(*                                                                         *)
(* Three specifications share the variables:                               *)
(*   SpecRegistry  the import of the module (its registerBehavior calls)   *)
(*                 and registry lookups;                                   *)
(*   SpecCard      one VCard4_0 component: add a child, serialize;         *)
(*   SpecLine      one property line: parse, set, decode, serialize.       *)
(***************************************************************************)
EXTENDS Integers, Sequences, FiniteSets, TLC

VARIABLES
    registry,   \* the behavior registry: <<NAME, version tag>> -> behavior
    shadow,     \* the registry as it would be without this module's registrations
    pc,         \* number of this module's registerBehavior calls already run
    found,      \* the last lookup: [name, version, behavior]
    children,   \* the component's children in insertion order
    out,        \* the logical lines emitted by the last serialize of the component
    report,     \* the last validation: [ran, errors]
    nImplicit,  \* number of children added by generateImplicitParameters
    line,       \* the property line: [name, value, encoded]
    raw,        \* the raw value the line was parsed from (<<>> when set natively)
    buf,        \* the physical lines written by the last serialize of the line
    lineLength, \* the caller's lineLength of the last serialize of the line
    decodes,    \* decode calls on the line since it was created
    afterFirst, \* the line as it was when its flag was cleared (first decode, or set)
    wacky_apple_photo_serialize, \* the module-level flag read by serialize
    listSeparator                \* the separator stringToTextValues splits at

vars == <<registry, shadow, pc, found, children, out, report, nImplicit,
          line, raw, buf, lineLength, decodes, afterFirst,
          wacky_apple_photo_serialize, listSeparator>>

regVars  == <<registry, shadow, pc, found>>
cardVars == <<children, out, report, nImplicit>>
lineVars == <<line, raw, buf, lineLength, decodes, afterFirst,
              wacky_apple_photo_serialize, listSeparator>>

\* ------------------------------------------------------------------ bounds

MaxOther    == 2   \* registrations made by other modules before this one
MaxChildren == 4   \* children added to the component by the caller
MaxValueLen == 3   \* characters of a property value
MaxDecodes  == 2   \* decode calls counted on one line
NarrowWidth == 5   \* a caller's lineLength that folds short lines
MediumWidth == 8   \* a caller's lineLength that folds longer lines

\* Python's None (a missing name, a missing version tag, an unbounded maximum).
None == "None"

\* ---------------------------------------------------------------- registry

\* str.upper() on the names that occur in mixed or lower case.
Upper(n) ==
    CASE n = "Photo"   -> "PHOTO"
      [] n = "Logo"    -> "LOGO"
      [] n = "Sound"   -> "SOUND"
      [] n = "Geo"     -> "GEO"
      [] n = "Key"     -> "KEY"
      [] n = "Tel"     -> "TEL"
      [] n = "Uid"     -> "UID"
      [] n = "version" -> "VERSION"
      [] n = "prodid"  -> "PRODID"
      [] n = "uid"     -> "UID"
      [] OTHER         -> n

\* The `name` attribute each behavior class declares.
DeclaredName(b) ==
    CASE b = "VCard4_0"     -> "VCARD"
      [] b = "Kind"         -> "KIND"
      [] b = "Gender"       -> "GENDER"
      [] b = "Anniversary"  -> "ANNIVERSARY"
      [] b = "Lang"         -> "LANG"
      [] b = "Impp"         -> "IMPP"
      [] b = "Related"      -> "RELATED"
      [] b = "Member"       -> "MEMBER"
      [] b = "ClientPidMap" -> "CLIENTPIDMAP"
      [] b = "Xml"          -> "XML"
      [] b = "Source"       -> "SOURCE"
      [] b = "Photo4_0"     -> "Photo"
      [] b = "Logo4_0"      -> "Logo"
      [] b = "Sound4_0"     -> "Sound"
      [] b = "Geo4_0"       -> "Geo"
      [] b = "Key4_0"       -> "Key"
      [] b = "Tel4_0"       -> "Tel"
      [] b = "Uid4_0"       -> "Uid"
      [] b = "FN4_0"        -> "FN"
      [] OTHER              -> b

Reg(b, n, v) == [behavior |-> b, name |-> n, id_ |-> v]

\* A slip the registrations could contain: PHOTO registered without id_='4.0'.
RegistrationsPhotoUntagged ==
    << Reg("VCard4_0", None, None), Reg("Kind", None, None),
       Reg("Gender", None, None), Reg("Anniversary", None, None),
       Reg("Lang", None, None), Reg("Impp", None, None),
       Reg("Related", None, None), Reg("Member", None, None),
       Reg("ClientPidMap", None, None), Reg("Xml", None, None),
       Reg("Source", None, None),
       Reg("Photo4_0", "PHOTO", None), Reg("Logo4_0", "LOGO", "4.0"),
       Reg("Sound4_0", "SOUND", "4.0"), Reg("Geo4_0", "GEO", "4.0"),
       Reg("Key4_0", "KEY", "4.0"), Reg("Tel4_0", "TEL", "4.0"),
       Reg("Uid4_0", "UID", "4.0"), Reg("FN4_0", "FN", "4.0") >>

\* A slip the registrations could contain: registerBehavior(Gender) left out.
RegistrationsWithoutGender ==
    << Reg("VCard4_0", None, None), Reg("Kind", None, None),
       Reg("Anniversary", None, None),
       Reg("Lang", None, None), Reg("Impp", None, None),
       Reg("Related", None, None), Reg("Member", None, None),
       Reg("ClientPidMap", None, None), Reg("Xml", None, None),
       Reg("Source", None, None),
       Reg("Photo4_0", "PHOTO", "4.0"), Reg("Logo4_0", "LOGO", "4.0"),
       Reg("Sound4_0", "SOUND", "4.0"), Reg("Geo4_0", "GEO", "4.0"),
       Reg("Key4_0", "KEY", "4.0"), Reg("Tel4_0", "TEL", "4.0"),
       Reg("Uid4_0", "UID", "4.0"), Reg("FN4_0", "FN", "4.0") >>

\* The module's registerBehavior calls, in the order the import runs them.
Registrations ==
    << Reg("VCard4_0", None, None), Reg("Kind", None, None),
       Reg("Gender", None, None), Reg("Anniversary", None, None),
       Reg("Lang", None, None), Reg("Impp", None, None),
       Reg("Related", None, None), Reg("Member", None, None),
       Reg("ClientPidMap", None, None), Reg("Xml", None, None),
       Reg("Source", None, None),
       Reg("Photo4_0", "PHOTO", "4.0"), Reg("Logo4_0", "LOGO", "4.0"),
       Reg("Sound4_0", "SOUND", "4.0"), Reg("Geo4_0", "GEO", "4.0"),
       Reg("Key4_0", "KEY", "4.0"), Reg("Tel4_0", "TEL", "4.0"),
       Reg("Uid4_0", "UID", "4.0"), Reg("FN4_0", "FN", "4.0") >>

EmptyRegistry == [k \in {} |-> None]

\* register(behavior, name, version): stored under (name or the behavior's
\* declared name, version); the same key again replaces the entry.
registerBehavior(reg, b, n, v) ==
    LET key == << Upper(IF n = None THEN DeclaredName(b) ELSE n), v >>
    IN  [k \in DOMAIN reg \cup {key} |-> IF k = key THEN b ELSE reg[k]]

\* lookup(name, version): the exact (name, version) entry, else the
\* (name, no version) entry, else the default opaque-text behavior.
getBehavior(reg, n, v) ==
    IF << Upper(n), v >> \in DOMAIN reg THEN reg[<< Upper(n), v >>]
    ELSE IF << Upper(n), None >> \in DOMAIN reg THEN reg[<< Upper(n), None >>]
    ELSE "Default"

\* What another module of the package (imported before this one) registers.
OtherNames == {"PHOTO", "GEO", "TEL", "FN", "KIND", "GENDER"}
OtherTags  == {"3.0", None}
OtherBehavior(v) == IF v = None THEN "LegacyText" ELSE "Legacy3_0"

\* The names looked up: those of the vCard 4.0 properties, the component's,
\* and one that nobody registers.
LookupNames    == {"VCARD", "KIND", "GENDER", "ANNIVERSARY", "LANG", "IMPP",
                   "RELATED", "MEMBER", "CLIENTPIDMAP", "XML", "SOURCE",
                   "PHOTO", "LOGO", "SOUND", "GEO", "KEY", "TEL", "UID", "FN",
                   "X-ABC"}
LookupVersions == {"4.0", "3.0", None}

NoLookup == [name |-> None, version |-> None, behavior |-> None]

\* Another module registers a behavior; this module imports it first
\* (from .vcard import ...), so its registrations all come before.
RegisterOther(n, v) ==
    /\ pc = 0
    /\ Cardinality(DOMAIN shadow) < MaxOther
    /\ registry' = registerBehavior(registry, OtherBehavior(v), n, v)
    /\ shadow' = registerBehavior(shadow, OtherBehavior(v), n, v)
    /\ UNCHANGED <<pc, found, cardVars, lineVars>>

\* The next registerBehavior call of this module.
ImportStep ==
    /\ pc < Len(Registrations)
    /\ LET r == Registrations[pc + 1]
       IN  registry' = registerBehavior(registry, r.behavior, r.name, r.id_)
    /\ pc' = pc + 1
    /\ UNCHANGED <<shadow, found, cardVars, lineVars>>

\* A lookup, once the module is imported.
LookupStep(n, v) ==
    /\ pc = Len(Registrations)
    /\ found' = [name |-> n, version |-> v, behavior |-> getBehavior(registry, n, v)]
    /\ UNCHANGED <<registry, shadow, pc, cardVars, lineVars>>

NextRegistry ==
    \/ \E n \in OtherNames, v \in OtherTags : RegisterOther(n, v)
    \/ ImportStep
    \/ \E n \in LookupNames, v \in LookupVersions : LookupStep(n, v)

\* The registry once the module is imported into an empty registry.
RECURSIVE RegisterAll(_, _)
RegisterAll(reg, rs) ==
    IF rs = <<>> THEN reg
    ELSE RegisterAll(registerBehavior(reg, Head(rs).behavior, Head(rs).name, Head(rs).id_),
                     Tail(rs))

ModuleRegistry == RegisterAll(EmptyRegistry, Registrations)

\* --------------------------------------------------------------- component

\* A cardinality triple (minimum, maximum, cascade); the maximum is <<m>>, or
\* <<>> for Python's None (unbounded).
Max(m)    == <<m>>
Unbounded == <<>>

\* A slip the table could contain: FN kept at vCard 3.0's "exactly one".
knownChildrenOneFN ==
    ("VERSION" :> <<1, Max(1), None>>) @@ ("FN" :> <<1, Max(1), None>>) @@
    ("N" :> <<0, Max(1), None>>) @@ ("NICKNAME" :> <<0, Unbounded, None>>) @@
    ("PHOTO" :> <<0, Unbounded, None>>) @@ ("BDAY" :> <<0, Max(1), None>>) @@
    ("ANNIVERSARY" :> <<0, Max(1), None>>) @@ ("GENDER" :> <<0, Max(1), None>>) @@
    ("PRODID" :> <<0, Max(1), None>>) @@ ("REV" :> <<0, Max(1), None>>) @@
    ("UID" :> <<0, Max(1), None>>) @@ ("KIND" :> <<0, Max(1), None>>)

\* VCard4_0.knownChildren, entry by entry (VERSION is listed twice in the
\* dict literal, both times with the same triple).
knownChildren ==
    ("VERSION"      :> <<1, Max(1),    None>>) @@
    ("FN"           :> <<1, Unbounded, None>>) @@
    ("N"            :> <<0, Max(1),    None>>) @@
    ("NICKNAME"     :> <<0, Unbounded, None>>) @@
    ("PHOTO"        :> <<0, Unbounded, None>>) @@
    ("BDAY"         :> <<0, Max(1),    None>>) @@
    ("ANNIVERSARY"  :> <<0, Max(1),    None>>) @@
    ("GENDER"       :> <<0, Max(1),    None>>) @@
    ("ADR"          :> <<0, Unbounded, None>>) @@
    ("TEL"          :> <<0, Unbounded, None>>) @@
    ("EMAIL"        :> <<0, Unbounded, None>>) @@
    ("IMPP"         :> <<0, Unbounded, None>>) @@
    ("LANG"         :> <<0, Unbounded, None>>) @@
    ("TZ"           :> <<0, Unbounded, None>>) @@
    ("GEO"          :> <<0, Unbounded, None>>) @@
    ("TITLE"        :> <<0, Unbounded, None>>) @@
    ("ROLE"         :> <<0, Unbounded, None>>) @@
    ("LOGO"         :> <<0, Unbounded, None>>) @@
    ("ORG"          :> <<0, Unbounded, None>>) @@
    ("MEMBER"       :> <<0, Unbounded, None>>) @@
    ("RELATED"      :> <<0, Unbounded, None>>) @@
    ("CATEGORIES"   :> <<0, Unbounded, None>>) @@
    ("NOTE"         :> <<0, Unbounded, None>>) @@
    ("PRODID"       :> <<0, Max(1),    None>>) @@
    ("REV"          :> <<0, Max(1),    None>>) @@
    ("SORT-STRING"  :> <<0, Unbounded, None>>) @@
    ("SOUND"        :> <<0, Unbounded, None>>) @@
    ("UID"          :> <<0, Max(1),    None>>) @@
    ("CLIENTPIDMAP" :> <<0, Unbounded, None>>) @@
    ("URL"          :> <<0, Unbounded, None>>) @@
    ("VERSION"      :> <<1, Max(1),    None>>) @@
    ("KEY"          :> <<0, Unbounded, None>>) @@
    ("FBURL"        :> <<0, Unbounded, None>>) @@
    ("CALADRURI"    :> <<0, Unbounded, None>>) @@
    ("CALURI"       :> <<0, Unbounded, None>>) @@
    ("XML"          :> <<0, Unbounded, None>>) @@
    ("SOURCE"       :> <<0, Unbounded, None>>) @@
    ("KIND"         :> <<0, Max(1),    None>>)

\* A slip: the version string of the vCard 3.0 behavior.
versionString3_0 == "3.0"

versionString == "4.0"

\* A slip: VERSION after PRODID.
sortFirstProdidFirst == << "prodid", "version", "uid" >>

sortFirst == << "version", "prodid", "uid" >>

\* A child of the component; id is the object's identity (its insertion rank).
ContentLine(n, v, i) == [name |-> Upper(n), value |-> v, id |-> i]

\* hasattr(obj, attr): the component has a child of that name.
hasattr(cs, attr) == \E i \in DOMAIN cs : cs[i].name = Upper(attr)

\* The same without the hasattr test: VERSION is appended on every call.
generateImplicitParameters_unguarded(cs) ==
    Append(cs, ContentLine("VERSION", versionString, Len(cs) + 1))

generateImplicitParameters(cs) ==
    IF ~hasattr(cs, "version")
    THEN Append(cs, ContentLine("VERSION", versionString, Len(cs) + 1))
    ELSE cs

Count(cs, n) == Cardinality({i \in DOMAIN cs : cs[i].name = n})

\* validate(component): for every known child name the actual count against
\* (minimum, maximum); an error names the child and the violated bound.
\* Names the table does not know are not looked at.
validate(cs) ==
    {[child |-> n, bound |-> "minimum"] :
        n \in {m \in DOMAIN knownChildren : Count(cs, m) < knownChildren[m][1]}}
    \cup
    {[child |-> n, bound |-> "maximum"] :
        n \in {m \in DOMAIN knownChildren :
                 /\ knownChildren[m][2] # Unbounded
                 /\ Count(cs, m) > knownChildren[m][2][1]}}

\* The names of the children in first-seen order.
RECURSIVE FirstSeenKeys(_, _)
FirstSeenKeys(cs, seen) ==
    IF cs = <<>> THEN <<>>
    ELSE IF Head(cs).name \in seen THEN FirstSeenKeys(Tail(cs), seen)
    ELSE <<Head(cs).name>> \o FirstSeenKeys(Tail(cs), seen \cup {Head(cs).name})

\* The groups named in sortFirst that are present, in that order, then the
\* remaining groups in first-seen order.
sortChildKeys(cs) ==
    LET IsFirst(k) == \E i \in DOMAIN sortFirst : Upper(sortFirst[i]) = k
        first == SelectSeq([i \in DOMAIN sortFirst |-> Upper(sortFirst[i])],
                           LAMBDA k : \E i \in DOMAIN cs : cs[i].name = k)
        rest  == SelectSeq(FirstSeenKeys(cs, {}), LAMBDA k : ~IsFirst(k))
    IN  first \o rest

RECURSIVE EmitGroups(_, _)
EmitGroups(cs, keys) ==
    IF keys = <<>> THEN <<>>
    ELSE SelectSeq(cs, LAMBDA c : c.name = Head(keys)) \o EmitGroups(cs, Tail(keys))

getSortedChildren(cs) == EmitGroups(cs, sortChildKeys(cs))

\* What the caller adds to the component.
CardNames == {"VERSION", "FN", "PRODID", "UID", "PHOTO", "X-ABC"}
CardValues(n) == IF n = "VERSION" THEN {"4.0", "3.0"} ELSE {"x"}

NoReport == [ran |-> FALSE, errors |-> {}]

\* component.add(name).value = v
AddChild(n, v) ==
    /\ Len(children) < MaxChildren
    /\ children' = Append(children, ContentLine(n, v, Len(children) + 1))
    /\ out' = <<>>
    /\ report' = NoReport
    /\ UNCHANGED <<nImplicit, regVars, lineVars>>

\* component.serialize(validate=...): implicit children, validation (errors
\* are collected), then the children in schema order.
Serialize(doValidate) ==
    /\ children' = generateImplicitParameters(children)
    /\ nImplicit' = nImplicit + (Len(children') - Len(children))
    /\ report' = IF doValidate
                 THEN [ran |-> TRUE, errors |-> validate(children')]
                 ELSE NoReport
    /\ out' = getSortedChildren(children')
    /\ UNCHANGED <<regVars, lineVars>>

\* component.validate(): the cardinality check alone.
Validate ==
    /\ report' = [ran |-> TRUE, errors |-> validate(children)]
    /\ out' = <<>>
    /\ UNCHANGED <<children, nImplicit, regVars, lineVars>>

NextCard ==
    \/ \E n \in CardNames : \E v \in CardValues(n) : AddChild(n, v)
    \/ Validate
    \/ \E b \in BOOLEAN : Serialize(b)

\* ----------------------------------------------------------- property line

\* The characters of a value: a letter, the two delimiters, the escape.
Chars     == {"M", ";", ",", "\\"}
Escapable == {"\\", ";", ","}

Values == UNION {[1..k -> Chars] : k \in 0..MaxValueLen}

\* A raw value is well formed when every backslash starts an escape.
RECURSIVE WellEscaped(_)
WellEscaped(s) ==
    IF s = <<>> THEN TRUE
    ELSE IF Head(s) = "\\"
         THEN Len(s) >= 2 /\ s[2] \in Escapable /\ WellEscaped(Tail(Tail(s)))
         ELSE WellEscaped(Tail(s))

RawValues == {x \in Values : WellEscaped(x)}

\* The value of a line: the code stores a plain string, raw or decoded.
TextValue(s) == [kind |-> "text", s |-> s]

NameChars(n) ==
    CASE n = "GENDER" -> << "G", "E", "N", "D", "E", "R" >>
      [] n = "PHOTO"  -> << "P", "H", "O", "T", "O" >>
      [] n = "LOGO"   -> << "L", "O", "G", "O" >>
      [] n = "SOUND"  -> << "S", "O", "U", "N", "D" >>
      [] n = "KEY"    -> << "K", "E", "Y" >>
      [] n = "X-ABC"  -> << "X", "-", "A", "B", "C" >>

LineNames == {"GENDER", "PHOTO", "LOGO", "SOUND", "KEY", "X-ABC"}

\* Stands for vcard.REALLY_LARGE: wider than any line.
REALLY_LARGE == 1000000

\* The widths a caller passes to serialize.
LineLengths == {NarrowWidth, MediumWidth}

\* Splits s at every unescaped separator and removes the escapes; the list of
\* the parts.  With no separator (None) the list has the one, whole text.
RECURSIVE ScanText(_, _, _, _)
ScanText(s, sep, current, results) ==
    IF s = <<>> THEN Append(results, current)
    ELSE IF Head(s) = "\\" /\ Len(s) >= 2
         THEN ScanText(Tail(Tail(s)), sep, Append(current, s[2]), results)
    ELSE IF Head(s) = sep
         THEN ScanText(Tail(s), sep, <<>>, Append(results, current))
    ELSE ScanText(Tail(s), sep, Append(current, Head(s)), results)

stringToTextValues(s) == ScanText(s, listSeparator, <<>>, <<>>)

\* The escaped form of a text: a backslash before each backslash, ';' and ','.
RECURSIVE backslashEscape(_)
backslashEscape(s) ==
    IF s = <<>> THEN <<>>
    ELSE (IF Head(s) \in Escapable THEN << "\\", Head(s) >> ELSE << Head(s) >>)
         \o backslashEscape(Tail(s))

\* The text with its escapes removed.
Unescape(s) == ScanText(s, None, <<>>, <<>>)[1]

\* A slip: decode without the guard on line.encoded.
Gender_decode_unguarded(l) ==
    [l EXCEPT !.value = TextValue(stringToTextValues(l.value.s)[1]),
              !.encoded = FALSE]

\* Gender.decode
Gender_decode(l) ==
    IF l.encoded
    THEN [l EXCEPT !.value = TextValue(stringToTextValues(l.value.s)[1]),
                   !.encoded = FALSE]
    ELSE l

\* The decode of the generic text behavior: the whole text, unescaped; a
\* no-op when the flag is clear.
VCardTextBehavior_decode(l) ==
    IF l.encoded
    THEN [l EXCEPT !.value = TextValue(Unescape(l.value.s)), !.encoded = FALSE]
    ELSE l

\* The default behavior of an unregistered name: the value is opaque text.
Default_decode(l) == IF l.encoded THEN [l EXCEPT !.encoded = FALSE] ELSE l

\* The behavior of a line of a VCard4_0 component: looked up by the line's
\* name and the component's version.
BehaviorOf(l) == getBehavior(ModuleRegistry, l.name, versionString)

decode(l) ==
    CASE BehaviorOf(l) = "Gender"  -> Gender_decode(l)
      [] BehaviorOf(l) = "Default" -> Default_decode(l)
      [] OTHER                     -> VCardTextBehavior_decode(l)

\* name, colon, escaped value (the line carries no parameters here).
ContentLineText(l) ==
    NameChars(l.name) \o << ":" >> \o
    (IF l.encoded \/ BehaviorOf(l) = "Default"
     THEN l.value.s ELSE backslashEscape(l.value.s))

\* Folding: a physical line holds at most w characters; a continuation line
\* begins with one space, which counts.
RECURSIVE FoldFrom(_, _, _, _)
FoldFrom(s, w, current, written) ==
    IF s = <<>> THEN Append(written, current)
    ELSE IF Len(current) + 1 > w
         THEN FoldFrom(Tail(s), w, << " ", Head(s) >>, Append(written, current))
    ELSE FoldFrom(Tail(s), w, Append(current, Head(s)), written)

foldOneLine(s, w) == FoldFrom(s, w, <<>>, <<>>)

VCardTextBehavior_serialize(l, w) == foldOneLine(ContentLineText(l), w)

\* A slip: the width widened whatever the flag.
Photo4_0_serialize_always_wide(l, w) == VCardTextBehavior_serialize(l, REALLY_LARGE)

\* Photo4_0.serialize
Photo4_0_serialize(l, w) ==
    VCardTextBehavior_serialize(l, IF wacky_apple_photo_serialize THEN REALLY_LARGE ELSE w)

\* A slip: the flag not consulted.
Logo4_0_serialize_no_flag(l, w) == VCardTextBehavior_serialize(l, w)

\* Logo4_0.serialize
Logo4_0_serialize(l, w) ==
    VCardTextBehavior_serialize(l, IF wacky_apple_photo_serialize THEN REALLY_LARGE ELSE w)

\* Sound4_0, Key4_0 and the other classes define no serialize of their own.
serialize(l, w) ==
    CASE BehaviorOf(l) = "Photo4_0" -> Photo4_0_serialize(l, w)
      [] BehaviorOf(l) = "Logo4_0"  -> Logo4_0_serialize(l, w)
      [] OTHER                      -> VCardTextBehavior_serialize(l, w)

\* The external unfolding: the first line, then each continuation line
\* without its leading space.
RECURSIVE Unfold(_)
Unfold(ls) ==
    IF ls = <<>> THEN <<>>
    ELSE IF Len(ls) = 1 THEN ls[1]
    ELSE Unfold(<< ls[1] \o Tail(ls[2]) >> \o Tail(Tail(ls)))

\* No line yet.
NoLine == [name |-> None, value |-> TextValue(<<>>), encoded |-> FALSE]

\* The lexer hands over a line with its raw value, still encoded.
ParseLine ==
    /\ line = NoLine
    /\ \E n \in LineNames, x \in RawValues :
          /\ line' = [name |-> n, value |-> TextValue(x), encoded |-> TRUE]
          /\ raw' = << x >>
    /\ afterFirst' = line'
    /\ decodes' = 0
    /\ buf' = <<>>
    /\ lineLength' = 0
    /\ UNCHANGED <<wacky_apple_photo_serialize, listSeparator, regVars, cardVars>>

\* The caller sets a native value: component.add(name).value = x
SetValue ==
    /\ line = NoLine
    /\ \E n \in LineNames, x \in Values :
          line' = [name |-> n, value |-> TextValue(x), encoded |-> FALSE]
    /\ raw' = <<>>
    /\ afterFirst' = line'
    /\ decodes' = 0
    /\ buf' = <<>>
    /\ lineLength' = 0
    /\ UNCHANGED <<wacky_apple_photo_serialize, listSeparator, regVars, cardVars>>

\* behavior.decode(line)
Decode ==
    /\ line # NoLine
    /\ decodes < MaxDecodes
    /\ line' = decode(line)
    /\ afterFirst' = IF line.encoded THEN line' ELSE afterFirst
    /\ decodes' = decodes + 1
    /\ buf' = <<>>
    /\ lineLength' = 0
    /\ UNCHANGED <<raw, wacky_apple_photo_serialize, listSeparator, regVars, cardVars>>

\* behavior.serialize(line, buf, lineLength, validate)
SerializeLine(w) ==
    /\ line # NoLine
    /\ buf' = serialize(line, w)
    /\ lineLength' = w
    /\ UNCHANGED <<line, raw, decodes, afterFirst,
                   wacky_apple_photo_serialize, listSeparator, regVars, cardVars>>

\* The caller sets or clears the flag.
SetFlag(b) ==
    /\ b # wacky_apple_photo_serialize
    /\ wacky_apple_photo_serialize' = b
    /\ buf' = <<>>
    /\ lineLength' = 0
    /\ UNCHANGED <<line, raw, decodes, afterFirst, listSeparator, regVars, cardVars>>

NextLine ==
    \/ ParseLine
    \/ SetValue
    \/ Decode
    \/ \E w \in LineLengths : SerializeLine(w)
    \/ \E b \in BOOLEAN : SetFlag(b)

\* ---------------------------------------------------------- specifications

\* Before the import: an empty registry; no component, no line in use.
InitRegistry ==
    /\ registry = EmptyRegistry
    /\ shadow = EmptyRegistry
    /\ pc = 0
    /\ found = NoLookup
    /\ children = <<>>
    /\ out = <<>>
    /\ report = NoReport
    /\ nImplicit = 0
    /\ line = NoLine
    /\ raw = <<>>
    /\ buf = <<>>
    /\ lineLength = 0
    /\ decodes = 0
    /\ afterFirst = NoLine
    /\ wacky_apple_photo_serialize = TRUE
    /\ listSeparator = ","

\* After the import: a new, empty VCard4_0 component.
InitCard ==
    /\ registry = ModuleRegistry
    /\ shadow = EmptyRegistry
    /\ pc = Len(Registrations)
    /\ found = NoLookup
    /\ children = <<>>
    /\ out = <<>>
    /\ report = NoReport
    /\ nImplicit = 0
    /\ line = NoLine
    /\ raw = <<>>
    /\ buf = <<>>
    /\ lineLength = 0
    /\ decodes = 0
    /\ afterFirst = NoLine
    /\ wacky_apple_photo_serialize = TRUE
    /\ listSeparator = ","

\* After the import: no line yet; the flag and the separator either way.
InitLine ==
    /\ registry = ModuleRegistry
    /\ shadow = EmptyRegistry
    /\ pc = Len(Registrations)
    /\ found = NoLookup
    /\ children = <<>>
    /\ out = <<>>
    /\ report = NoReport
    /\ nImplicit = 0
    /\ line = NoLine
    /\ raw = <<>>
    /\ buf = <<>>
    /\ lineLength = 0
    /\ decodes = 0
    /\ afterFirst = NoLine
    /\ wacky_apple_photo_serialize \in BOOLEAN
    /\ listSeparator \in {",", ";"}

SpecRegistry == InitRegistry /\ [][NextRegistry]_vars

SpecCard == InitCard /\ [][NextCard]_vars

SpecLine == InitLine /\ [][NextLine]_vars

\* ------------------------------------------------------------------ properties

Names(cs) == [i \in DOMAIN cs |-> cs[i].name]

\* C1: a serialize of a VCard4_0 component that has no VERSION child adds
\* exactly one child, VERSION with the value 4.0, after the existing ones;
\* the emitted lines then hold VERSION:4.0 and neither the validation run by
\* serialize nor a later one reports a cardinality error for VERSION.
C1_ImplicitVersion ==
    [][ ((\E b \in BOOLEAN : Serialize(b)) /\ Count(children, "VERSION") = 0)
        => /\ Len(children') = Len(children) + 1
           /\ SubSeq(children', 1, Len(children)) = children
           /\ Count(children', "VERSION") = 1
           /\ children'[Len(children')].name = "VERSION"
           /\ children'[Len(children')].value = "4.0"
           /\ \E i \in DOMAIN out' : out'[i].name = "VERSION" /\ out'[i].value = "4.0"
           /\ \A e \in report'.errors : e.child # "VERSION"
           /\ \A e \in validate(children') : e.child # "VERSION" ]_vars

C1_Witness ==
    /\ nImplicit = 1
    /\ report.ran
    /\ children[Len(children)].name = "VERSION"
    /\ children[Len(children)].value = "4.0"
    /\ \E i \in DOMAIN out : out[i].name = "VERSION" /\ out[i].value = "4.0"
    /\ \A e \in report.errors : e.child # "VERSION"

\* The form sex[;text] of a raw GENDER value: a one-letter sex
\* code, then optionally ';' and a free text of letters.
IsLetters(s) == \A i \in DOMAIN s : s[i] = "M"
SexEnd(x) == IF \E i \in DOMAIN x : x[i] = ";"
             THEN CHOOSE i \in DOMAIN x : x[i] = ";" /\ \A j \in 1..(i - 1) : x[j] # ";"
             ELSE Len(x) + 1
SexCode(x)  == SubSeq(x, 1, SexEnd(x) - 1)
FreeText(x) == SubSeq(x, SexEnd(x) + 1, Len(x))
GenderForm(x) == IsLetters(SexCode(x)) /\ Len(SexCode(x)) = 1 /\ IsLetters(FreeText(x))
GenderValue(sex, text) == [kind |-> "gender", sex |-> sex, text |-> text]

\* C2: a GENDER line decoded from a raw value sex[;text] holds the structured
\* pair (sex code, free text): "M;M" gives ("M", "M"), "M" gives ("M", "").
C2_GenderDecodesToPair ==
    (line.name = "GENDER" /\ raw # <<>> /\ decodes >= 1 /\ GenderForm(raw[1]))
    => line.value = GenderValue(SexCode(raw[1]), FreeText(raw[1]))

MaxOneNames == {"N", "BDAY", "ANNIVERSARY", "GENDER", "PRODID", "REV", "UID", "KIND"}

\* C3: a validated component fails when VERSION or FN is missing, fails when
\* VERSION or a maximum-1 child occurs more than once, passes with exactly
\* one VERSION, one or more FN and at most one of each maximum-1 child,
\* whatever else it holds; no error names a child the table does not list.
C3_Cardinality ==
    report.ran =>
        LET passes == report.errors = {}
        IN  /\ (Count(children, "VERSION") = 0 \/ Count(children, "FN") = 0) => ~passes
            /\ (\E n \in MaxOneNames \cup {"VERSION"} : Count(children, n) > 1) => ~passes
            /\ ( /\ Count(children, "VERSION") = 1
                 /\ Count(children, "FN") >= 1
                 /\ \A n \in MaxOneNames : Count(children, n) <= 1 ) => passes
            /\ \A e \in report.errors : e.child # "X-ABC"

C3_Witness ==
    /\ report.ran
    /\ report.errors = {}
    /\ Count(children, "FN") = 2
    /\ Count(children, "PHOTO") = 1
    /\ Count(children, "X-ABC") = 1

Versioned4_0 ==
    ("PHOTO" :> "Photo4_0") @@ ("LOGO" :> "Logo4_0") @@ ("SOUND" :> "Sound4_0") @@
    ("GEO" :> "Geo4_0") @@ ("KEY" :> "Key4_0") @@ ("TEL" :> "Tel4_0") @@
    ("UID" :> "Uid4_0") @@ ("FN" :> "FN4_0")

\* C4: once the module is imported, a lookup of PHOTO, LOGO, SOUND, GEO, KEY,
\* TEL, UID or FN with the tag 4.0 finds the module's 4.0 behavior, and with
\* another tag (or none) finds what the registry without the module's
\* registrations gives.
C4_VersionIsolation ==
    /\ found.name \in DOMAIN Versioned4_0 =>
          IF found.version = "4.0"
          THEN found.behavior = Versioned4_0[found.name]
          ELSE found.behavior = getBehavior(shadow, found.name, found.version)
    /\ pc = Len(Registrations) =>
          \A n \in DOMAIN Versioned4_0 :
             /\ getBehavior(registry, n, "4.0") = Versioned4_0[n]
             /\ \A v \in LookupVersions \ {"4.0"} :
                   getBehavior(registry, n, v) = getBehavior(shadow, n, v)

C4_Witness ==
    /\ found.name = "PHOTO"
    /\ found.version = "3.0"
    /\ found.behavior = "LegacyText"
    /\ << "PHOTO", "3.0" >> \notin DOMAIN registry
    /\ << "PHOTO", "4.0" >> \in DOMAIN registry

Untagged4_0 ==
    ("KIND" :> "Kind") @@ ("GENDER" :> "Gender") @@ ("ANNIVERSARY" :> "Anniversary") @@
    ("LANG" :> "Lang") @@ ("IMPP" :> "Impp") @@ ("RELATED" :> "Related") @@
    ("MEMBER" :> "Member") @@ ("CLIENTPIDMAP" :> "ClientPidMap") @@
    ("XML" :> "Xml") @@ ("SOURCE" :> "Source")

\* C5: every lookup returns a behavior: the entry under exactly (name,
\* version) if there is one, else the entry under (name, no version), else
\* the default behavior; the properties the module registers without a tag
\* resolve to the module's behavior for version 4.0.
C5_LookupOrder ==
    found # NoLookup =>
        LET exact    == << found.name, found.version >>
            untagged == << found.name, None >>
        IN  /\ found.behavior # None
            /\ exact \in DOMAIN registry => found.behavior = registry[exact]
            /\ (exact \notin DOMAIN registry /\ untagged \in DOMAIN registry)
                  => found.behavior = registry[untagged]
            /\ (exact \notin DOMAIN registry /\ untagged \notin DOMAIN registry)
                  => found.behavior = "Default"
            /\ (found.name \in DOMAIN Untagged4_0 /\ found.version = "4.0")
                  => found.behavior = Untagged4_0[found.name]

C5_Witness ==
    /\ found.name = "GENDER"
    /\ found.version = "4.0"
    /\ found.behavior = "Gender"
    /\ << "GENDER", None >> \in DOMAIN shadow

ExpectedFirst == << "VERSION", "PRODID", "UID" >>

FirstSeen(cs, n) == CHOOSE i \in DOMAIN cs :
                       cs[i].name = n /\ \A j \in 1..(i - 1) : cs[j].name # n

GroupRank(cs, n) ==
    IF \E i \in DOMAIN ExpectedFirst : ExpectedFirst[i] = n
    THEN CHOOSE i \in DOMAIN ExpectedFirst : ExpectedFirst[i] = n
    ELSE Len(ExpectedFirst) + FirstSeen(cs, n)

\* C6: the emitted lines are the children, each once: VERSION first, then
\* PRODID, then UID, then the other names in first-seen order; children of
\* one name keep their relative order.  Children FN, PRODID, VERSION, PRODID
\* come out as VERSION, PRODID, PRODID, FN.
C6_SerializationOrder ==
    out # <<>> =>
        /\ Len(out) = Len(children)
        /\ {out[i] : i \in DOMAIN out} = {children[i] : i \in DOMAIN children}
        /\ out[1].name = "VERSION"
        /\ \A i, j \in DOMAIN out :
              i < j => IF out[i].name = out[j].name
                       THEN out[i].id < out[j].id
                       ELSE GroupRank(children, out[i].name)
                               < GroupRank(children, out[j].name)
        /\ Names(children) = << "FN", "PRODID", "VERSION", "PRODID" >>
              => /\ Names(out) = << "VERSION", "PRODID", "PRODID", "FN" >>
                 /\ [i \in DOMAIN out |-> out[i].id] = << 3, 2, 4, 1 >>

C6_Witness ==
    /\ Names(children) = << "FN", "PRODID", "VERSION", "PRODID" >>
    /\ Names(out) = << "VERSION", "PRODID", "PRODID", "FN" >>

ValuePart(n, text) == SubSeq(text, Len(NameChars(n)) + 2, Len(text))

\* C7: a parsed line that is decoded and then serialized gives back, once
\* unfolded, its raw value, up to the escaping.
C7_RoundTrip ==
    (buf # <<>> /\ raw # <<>> /\ decodes >= 1)
    => Unescape(ValuePart(line.name, Unfold(buf))) = Unescape(raw[1])

\* C8: a line whose flag is clear is as it was when the flag was cleared,
\* however many decode calls followed; after a decode call the flag is clear.
C8_DecodeIdempotent ==
    /\ (line # NoLine /\ ~line.encoded) => line = afterFirst
    /\ decodes >= 1 => ~line.encoded

C8_Witness ==
    /\ line.name = "GENDER"
    /\ raw # <<>>
    /\ decodes = 2
    /\ line.value.s # raw[1]

\* C9: serialized at the caller's width (always, but for PHOTO and LOGO with
\* the flag set), a line of width + 1 characters comes out as two physical
\* lines, the second beginning with a space; no physical line is longer than
\* the width; unfolding gives the line back.
C9_Folding ==
    (buf # <<>> /\ ~(line.name \in {"PHOTO", "LOGO"} /\ wacky_apple_photo_serialize))
    => LET text == ContentLineText(line)
       IN  /\ Len(text) = lineLength + 1 => (Len(buf) = 2 /\ Len(buf[2]) = 2)
           /\ \A i \in DOMAIN buf : Len(buf[i]) <= lineLength
           /\ \A i \in DOMAIN buf : i >= 2 => buf[i][1] = " "
           /\ Unfold(buf) = text

C9_Witness ==
    /\ line.name = "PHOTO"
    /\ ~wacky_apple_photo_serialize
    /\ Len(buf) = 2
    /\ Len(ContentLineText(line)) = lineLength + 1
    /\ buf[2][1] = " "

\* C10 as stated: with the flag set, PHOTO, LOGO, SOUND and KEY are written
\* on one physical line.
C10_WideAllFour ==
    (buf # <<>> /\ wacky_apple_photo_serialize
       /\ line.name \in {"PHOTO", "LOGO", "SOUND", "KEY"})
    => Len(buf) = 1

\* C10 amended: with the flag set, PHOTO and LOGO are written on one physical
\* line; every other property, SOUND and KEY among them, and PHOTO and LOGO
\* with the flag clear, is folded at the caller's width.
C10_WidePhotoLogo ==
    buf # <<>> =>
        LET text == ContentLineText(line)
        IN  IF line.name \in {"PHOTO", "LOGO"} /\ wacky_apple_photo_serialize
            THEN buf = << text >>
            ELSE /\ \A i \in DOMAIN buf : Len(buf[i]) <= lineLength
                 /\ Len(text) > lineLength => Len(buf) >= 2
                 /\ Unfold(buf) = text

C10_Witness ==
    /\ line.name = "LOGO"
    /\ wacky_apple_photo_serialize
    /\ Len(buf) = 1
    /\ Len(buf[1]) > lineLength
    /\ lineLength > 0

\* C11: generateImplicitParameters leaves a component that has a VERSION
\* child, whatever its value and whoever added it, as it is: same children,
\* same values, same order.  So over add-child, validate and serialize steps
\* serialize adds a VERSION child at most once, and a serialize that follows
\* a serialize with nothing added in between leaves the children and the
\* emitted lines as they were.
C11_ImplicitFrame ==
    [][ /\ hasattr(children, "version")
           => generateImplicitParameters(children) = children
        /\ ((\E b \in BOOLEAN : Serialize(b)) /\ hasattr(children, "version"))
           => /\ children' = children
              /\ nImplicit' = nImplicit
        /\ nImplicit' <= 1
        /\ ((\E b \in BOOLEAN : Serialize(b)) /\ out # <<>>)
           => /\ children' = children
              /\ out' = out ]_vars

\* The implicit VERSION:4.0 was added by an earlier serialize, the caller then
\* added a VERSION of its own with another value, and the component was
\* serialized again: still one implicit child, every child emitted.
C11_Witness ==
    /\ nImplicit = 1
    /\ Len(out) = Len(children)
    /\ \E i, j \in DOMAIN children :
          /\ i < j
          /\ children[i].name = "VERSION" /\ children[i].value = "4.0"
          /\ children[j].name = "VERSION" /\ children[j].value = "3.0"
    /\ Count(children, "VERSION") = 2

====
